---- MODULE Spec2Model ----
(***************************************************************************)
(* A model of matchdicom/matchdicom.py: the timestamp extractors, the two  *)
(* one-to-pool scans, match_directories, print_comparison and the          *)
(* run_from_cli dispatcher.                                                *)
(*                                                                         *)
(* Strings are sequences of one-character strings, so that the slicing of  *)
(* the DICOM attributes, the formatting of the timestamp string and its    *)
(* parsing by strptime are computed, not assumed.  A datetime is the pair  *)
(* (proleptic Gregorian ordinal of the day, second of the day), which is   *)
(* how datetime.datetime orders and subtracts its values.                  *)
(*                                                                         *)
(* A Python call either returns or raises; a result is the record          *)
(* [tag, ts, exc] with tag "ok" (ts is the datetime), "none" (the call     *)
(* returned None) or "raise" (exc names the exception class).              *)
(*                                                                         *)
(* strptime is modelled on the strings the readers can hand it here: the   *)
(* six fields are split at ':' and ' ' and each must be one or two digits  *)
(* (four for the year) naming a valid date and time; anything else is the  *)
(* ValueError strptime raises.  Timestamps have whole-second resolution,   *)
(* so differences are whole seconds.                                       *)
(*                                                                         *)
(* Lines 258-286 of the source are the body of a commented-out             *)
(* run_from_cli2 and are not modelled; print_dicom_metadata and            *)
(* print_raw_metadata are reached by no modelled call (run_from_cli raises *)
(* on args.r before it calls them) and are left out.                       *)
(***************************************************************************)
EXTENDS Integers, Sequences, FiniteSets, TLC

\* ------------------------------------------------------------------ bounds

\* Longest directory listing os.listdir returns in a pool scan.
MaxFiles == 3

\* Longest directory listing in the command line's one-to-many branch.
MaxCliFiles == 2

\* Most positional arguments given on the command line.
MaxTargets == 3

\* ----------------------------------------------------------------- strings

Digits == {"0", "1", "2", "3", "4", "5", "6", "7", "8", "9"}

DigitVal(c) ==
  CASE c = "0" -> 0 [] c = "1" -> 1 [] c = "2" -> 2 [] c = "3" -> 3
    [] c = "4" -> 4 [] c = "5" -> 5 [] c = "6" -> 6 [] c = "7" -> 7
    [] c = "8" -> 8 [] c = "9" -> 9

\* The characters bytes.decode('ascii') accepts (those the inputs use).
AsciiChars == Digits \cup {":", " ", "-", "."}

IsDigits(s) == \A i \in 1..Len(s) : s[i] \in Digits

RECURSIVE IntOf(_)
IntOf(s) ==
  IF Len(s) = 0 THEN 0
  ELSE 10 * IntOf(SubSeq(s, 1, Len(s) - 1)) + DigitVal(s[Len(s)])

MinInt(a, b) == IF a < b THEN a ELSE b

\* Python's s[a:b] for 0 <= a <= b: out-of-range bounds are clipped.
Slice(s, a, b) == SubSeq(s, a + 1, MinInt(b, Len(s)))

\* The fields of s between the separator characters, and the separators met.
RECURSIVE SplitFields(_, _, _, _)
SplitFields(s, cur, fields, seps) ==
  IF Len(s) = 0 THEN [fields |-> Append(fields, cur), seps |-> seps]
  ELSE IF s[1] \in {":", " "}
       THEN SplitFields(Tail(s), <<>>, Append(fields, cur), Append(seps, s[1]))
       ELSE SplitFields(Tail(s), Append(cur, s[1]), fields, seps)

\* ---------------------------------------------------------------- results

NoTS == [ord |-> 0, sec |-> 0]

Ok(ts) == [tag |-> "ok", ts |-> ts, exc |-> ""]

ReturnedNone == [tag |-> "none", ts |-> NoTS, exc |-> ""]

Raise(e) == [tag |-> "raise", ts |-> NoTS, exc |-> e]

\* --------------------------------------------------------------- datetime

IsLeap(y) == y % 4 = 0 /\ (y % 100 # 0 \/ y % 400 = 0)

DaysBeforeMonth == <<0, 31, 59, 90, 120, 151, 181, 212, 243, 273, 304, 334>>

DaysInMonth(y, m) ==
  IF m = 2 THEN (IF IsLeap(y) THEN 29 ELSE 28)
  ELSE IF m \in {4, 6, 9, 11} THEN 30 ELSE 31

\* datetime's ordinal of a date: 1 for 0001-01-01.
Ymd2Ord(y, m, d) ==
  LET y1 == y - 1 IN
    y1 * 365 + (y1 \div 4) - (y1 \div 100) + (y1 \div 400)
    + DaysBeforeMonth[m] + (IF m > 2 /\ IsLeap(y) THEN 1 ELSE 0) + d

\* One numeric field of the format: one or two digits within lo..hi.
FieldOk(f, lo, hi) ==
  /\ Len(f) \in {1, 2}
  /\ IsDigits(f)
  /\ IntOf(f) >= lo
  /\ IntOf(f) <= hi

\* datetime.datetime.strptime(s, '%Y:%m:%d %H:%M:%S'): the datetime, or
\* ValueError when s does not match the format or names no valid date/time.
Strptime(s) ==
  LET p == SplitFields(s, <<>>, <<>>, <<>>)
      f == p.fields
  IN  IF /\ p.seps = <<":", ":", " ", ":", ":">>
         /\ Len(f[1]) = 4 /\ IsDigits(f[1]) /\ IntOf(f[1]) >= 1
         /\ FieldOk(f[2], 1, 12)
         /\ FieldOk(f[3], 1, 31)
         /\ FieldOk(f[4], 0, 23)
         /\ FieldOk(f[5], 0, 59)
         /\ FieldOk(f[6], 0, 59)
         /\ IntOf(f[3]) <= DaysInMonth(IntOf(f[1]), IntOf(f[2]))
      THEN Ok([ord |-> Ymd2Ord(IntOf(f[1]), IntOf(f[2]), IntOf(f[3])),
               sec |-> IntOf(f[4]) * 3600 + IntOf(f[5]) * 60 + IntOf(f[6])])
      ELSE Raise("ValueError")

\* a > b on datetimes.
DtGreater(a, b) == a.ord > b.ord \/ (a.ord = b.ord /\ a.sec > b.sec)

\* max([a, b]) and min([a, b]) of Python: the first element unless the
\* second is strictly greater (smaller).
DtMax(a, b) == IF DtGreater(b, a) THEN b ELSE a

DtMin(a, b) == IF DtGreater(a, b) THEN b ELSE a

\* (a - b).total_seconds()
DtSubSeconds(a, b) == (a.ord - b.ord) * 86400 + (a.sec - b.sec)

\* ------------------------------------------------------------- exceptions

\* Whether an except clause naming `classes` catches exception e:
\* UnicodeDecodeError is a subclass of ValueError.
Catches(classes, e) ==
  \/ e \in classes
  \/ (e = "UnicodeDecodeError" /\ "ValueError" \in classes)

\* ------------------------------------------------------------ file system

Str_20170615 == <<"2", "0", "1", "7", "0", "6", "1", "5">>

Str_20171315 == <<"2", "0", "1", "7", "1", "3", "1", "5">>

Str_093005 == <<"0", "9", "3", "0", "0", "5">>

Str_093007_25 == <<"0", "9", "3", "0", "0", "7", ".", "2", "5">>

Str_235959 == <<"2", "3", "5", "9", "5", "9">>

RawStamp(d1, d2, h1, h2, m1, m2, s1, s2) ==
  <<"2", "0", "1", "7", ":", "0", "6", ":", d1, d2, " ",
    h1, h2, ":", m1, m2, ":", s1, s2>>

\* A directory entry: what kind of file it is, the DICOM attributes it
\* carries (AcquisitionDate, AcquisitionTime, ImageComments) and the bytes
\* of the first TIFF page's datetime tag.
File(kind, hasDate, date, hasTime, time, hasComment, hasTag, datetime) ==
  [kind |-> kind, hasDate |-> hasDate, date |-> date, hasTime |-> hasTime,
   time |-> time, hasComment |-> hasComment, hasTag |-> hasTag,
   datetime |-> datetime]

Dicom(hasDate, date, hasTime, time, hasComment) ==
  File("dicom", hasDate, date, hasTime, time, hasComment, FALSE, <<>>)

Tiff(hasTag, datetime) ==
  File("tiff", FALSE, <<>>, FALSE, <<>>, FALSE, hasTag, datetime)

\* The files the scans are run on: one of each kind the readers tell apart.
Files(name) ==
  CASE name = "sub"        -> File("dir", FALSE, <<>>, FALSE, <<>>, FALSE, FALSE, <<>>)
    [] name = "notes.txt"  -> File("other", FALSE, <<>>, FALSE, <<>>, FALSE, FALSE, <<>>)
    [] name = "a.dcm"      -> Dicom(TRUE, Str_20170615, TRUE, Str_093005, TRUE)
    [] name = "b.dcm"      -> Dicom(TRUE, Str_20170615, TRUE, Str_093007_25, FALSE)
    [] name = "late.dcm"   -> Dicom(TRUE, Str_20170615, TRUE, Str_235959, TRUE)
    [] name = "nodate.dcm" -> Dicom(FALSE, <<>>, TRUE, Str_093005, TRUE)
    [] name = "notime.dcm" -> Dicom(TRUE, Str_20170615, FALSE, <<>>, TRUE)
    [] name = "bad.dcm"    -> Dicom(TRUE, Str_20171315, TRUE, Str_093005, TRUE)
    [] name = "bare.dcm"   -> Dicom(FALSE, <<>>, FALSE, <<>>, FALSE)
    [] name = "r05.tif"    -> Tiff(TRUE, RawStamp("1", "5", "0", "9", "3", "0", "0", "5"))
    [] name = "r06.tif"    -> Tiff(TRUE, RawStamp("1", "5", "0", "9", "3", "0", "0", "6"))
    [] name = "r07.tif"    -> Tiff(TRUE, RawStamp("1", "5", "0", "9", "3", "0", "0", "7"))
    [] name = "r08.tif"    -> Tiff(TRUE, RawStamp("1", "5", "0", "9", "3", "0", "0", "8"))
    [] name = "next.tif"   -> Tiff(TRUE, RawStamp("1", "6", "0", "0", "0", "0", "0", "0"))
    [] name = "notag.tif"  -> Tiff(FALSE, <<>>)
    [] name = "bad.tif"    -> Tiff(TRUE, <<"2", "0", "1", "7", "-", "0", "6", "-", "1", "5",
                                           " ", "0", "9", ":", "3", "0", ":", "0", "6">>)
    [] name = "bin.tif"    -> Tiff(TRUE, <<"2", "0", "1", "7", ":", "0", "6", ":", "1", "5",
                                           " ", "0", "9", ":", "3", "0", ":", "0", "0xE9">>)

DicomNames == {"a.dcm", "b.dcm", "late.dcm", "nodate.dcm", "notime.dcm", "bad.dcm",
               "bare.dcm"}

TiffNames == {"r05.tif", "r06.tif", "r07.tif", "r08.tif", "next.tif",
              "notag.tif", "bad.tif", "bin.tif"}

\* What a directory of RAW files may list, and a directory of DICOM files.
RawDirNames == TiffNames \cup {"sub", "notes.txt", "a.dcm"}

DicomDirNames == DicomNames \cup {"sub", "notes.txt", "r06.tif"}

AllNames == DicomNames \cup TiffNames \cup {"sub", "notes.txt"}

\* The paths given on the command line, and what a directory among them lists.
CliPaths == {"sub", "a.dcm", "r06.tif", "notes.txt"}

CliDirNames == {"r06.tif", "r07.tif", "notes.txt", "notag.tif"}

\* os.listdir: up to n distinct names of S, in any order.
Listings(S, n) ==
  UNION {{s \in [1..k -> S] : \A i, j \in 1..k : i # j => s[i] # s[j]} : k \in 0..n}

\* os.path.isdir
isdir(path) == Files(path).kind = "dir"

\* ------------------------------------------------------------ file handlers

\* dicom.read_file(path, stop_before_pixels=True): the dataset, or the error.
open_dicom(path) ==
  CASE Files(path).kind = "dir"   -> Raise("IsADirectoryError")
    [] Files(path).kind = "dicom" -> Ok(NoTS)
    [] OTHER                      -> Raise("InvalidDicomError")

\* tifffile.TiffFile(path)
open_raw(path) ==
  CASE Files(path).kind = "dir"  -> Raise("IsADirectoryError")
    [] Files(path).kind = "tiff" -> Ok(NoTS)
    [] OTHER                     -> Raise("ValueError")

\* ---------------------------------------------------------------- timestamps

\* raw_file.pages[0].tags['datetime'].value.decode('ascii'), then strptime.
get_raw_timestamp(f) ==
  IF ~f.hasTag THEN Raise("KeyError")
  ELSE IF \E i \in 1..Len(f.datetime) : f.datetime[i] \notin AsciiChars
       THEN Raise("UnicodeDecodeError")
       ELSE Strptime(f.datetime)

\* '{}:{}:{} {}:{}:{}'.format(date[0:4], date[4:6], date[6:8],
\*                             time[0:2], time[2:4], time[4:6])
FormatDicomStamp(date, time) ==
  Slice(date, 0, 4) \o <<":">> \o Slice(date, 4, 6) \o <<":">> \o Slice(date, 6, 8)
  \o <<" ">>
  \o Slice(time, 0, 2) \o <<":">> \o Slice(time, 2, 4) \o <<":">> \o Slice(time, 4, 6)

get_dicom_timestamp(f) ==
  IF f.hasDate
  THEN IF ~f.hasTime THEN Raise("AttributeError")
       ELSE Strptime(FormatDicomStamp(f.date, f.time))
  ELSE ReturnedNone

\* A directional difference, a - b, in place of max - min.
time_diff_directional(a, b) ==
  IF a.tag = "none" \/ b.tag = "none" THEN [tag |-> "raise", secs |-> 0, exc |-> "TypeError"]
  ELSE [tag |-> "ok", secs |-> DtSubSeconds(a.ts, b.ts), exc |-> ""]

\* max([a, b]) - min([a, b]) on two extraction results that did not raise:
\* the seconds between them, or TypeError when either is None.
time_diff(a, b) ==
  IF a.tag = "none" \/ b.tag = "none" THEN [tag |-> "raise", secs |-> 0, exc |-> "TypeError"]
  ELSE [tag |-> "ok",
        secs |-> DtSubSeconds(DtMax(a.ts, b.ts), DtMin(a.ts, b.ts)),
        exc |-> ""]

\* time_diff.total_seconds() < 2.0
within_tolerance(secs) == secs < 2

\* A list that keeps only the latest match (a "best match" selection).
append_match_keep_last(ms, name) == <<name>>

\* A list that puts the latest match first.
append_match_front(ms, name) == <<name>> \o ms

\* matches.append(filename)
append_match(ms, name) == Append(ms, name)

\* ------------------------------------------------------------------ state

VARIABLES
  op,          \* the function that was called
  pc,          \* "start", "loop", "returned" or "raised"
  exc,         \* the exception that left the function ("" when none)
  ref,         \* a pool scan's opened reference file
  ref_time,    \* what the reference's timestamp call gave (dicom_time, raw_time)
  listing,     \* what os.listdir returned for the scanned directory
  idx,         \* how many entries of the listing the loop has been through
  matches,     \* a pool scan's list of matching filenames
  skipped,     \* the logger.error lines: what was named and the error
  dicom_file,  \* raw-to-DICOM scan: the local dicom_file ("" while unbound)
  matchset,    \* match_directories' dict
  targets,     \* the positional arguments (the two paths of a comparison)
  raw,         \* the --raw flag
  verbose,     \* the --verbose flag (match_directories' verbose)
  styling,     \* whether the terminal does styling (blessings)
  branch,      \* the branch run_from_cli took
  out          \* what was printed

vars == <<op, pc, exc, ref, ref_time, listing, idx, matches, skipped, dicom_file,
          matchset, targets, raw, verbose, styling, branch, out>>

EmptyDict == [n \in {} |-> <<>>]

Line(outcome, name, e, color, secs) ==
  [outcome |-> outcome, name |-> name, exc |-> e, color |-> color, secs |-> secs]

\* --------------------------------------------------- one iteration of a scan

Step(tag, e) == [tag |-> tag, exc |-> e]

\* The try body of _find_matching_files_dicom_to_raw for one raw_filename.
dicom_to_raw_try(dicom_time, raw_filename) ==
  LET o == open_raw(raw_filename) IN
  IF o.tag = "raise" THEN Step("raise", o.exc)
  ELSE LET raw_time == get_raw_timestamp(Files(raw_filename)) IN
       IF raw_time.tag = "raise" THEN Step("raise", raw_time.exc)
       ELSE LET d == time_diff(dicom_time, raw_time) IN
            IF d.tag = "raise" THEN Step("raise", d.exc)
            ELSE IF within_tolerance(d.secs) THEN Step("match", "")
                 ELSE Step("nomatch", "")

\* The try body of _find_matching_files_raw_to_dicom for one dicom_filename;
\* "opened" tells whether dicom_file was assigned.
raw_to_dicom_try(raw_time, dicom_filename) ==
  LET o == open_dicom(dicom_filename) IN
  IF o.tag = "raise" THEN [tag |-> "raise", exc |-> o.exc, opened |-> FALSE]
  ELSE LET dicom_time == get_dicom_timestamp(Files(dicom_filename)) IN
       IF dicom_time.tag = "raise"
       THEN [tag |-> "raise", exc |-> dicom_time.exc, opened |-> TRUE]
       ELSE LET d == time_diff(dicom_time, raw_time) IN
            IF d.tag = "raise" THEN [tag |-> "raise", exc |-> d.exc, opened |-> TRUE]
            ELSE IF within_tolerance(d.secs)
                 THEN [tag |-> "match", exc |-> "", opened |-> TRUE]
                 ELSE [tag |-> "nomatch", exc |-> "", opened |-> TRUE]

\* match_directories calls _find_matching_files, a name the module binds
\* nowhere: evaluating it raises NameError.
find_matching_files(dicom_filename, raw_dir, verb) ==
  [tag |-> "raise", list |-> <<>>, exc |-> "NameError"]

\* ------------------------------------------------------- print_comparison

\* term.magenta(dicom_comment).ljust(45) when the file has no ImageComments:
\* a styling terminal concatenates None to a string, a plain one returns
\* None, on which ljust is looked up.
magenta_comment(f, styl) ==
  IF f.hasComment THEN ""
  ELSE IF styl THEN "TypeError" ELSE "AttributeError"

\* time_diff.total_seconds() > 2 prints the difference in red, else in green.
comparison_color(secs) == IF secs > 2 THEN "red" ELSE "green"

print_comparison(dicom_filename, raw_filename, styl) ==
  LET od == open_dicom(dicom_filename) IN
  IF od.tag = "raise"
  THEN IF Catches({"InvalidDicomError"}, od.exc)
       THEN Line("warn_dicom", dicom_filename, "", "", 0)
       ELSE Line("raise", dicom_filename, od.exc, "", 0)
  ELSE
  LET orw == open_raw(raw_filename) IN
  IF orw.tag = "raise"
  THEN IF Catches({"ValueError"}, orw.exc)
       THEN Line("warn_raw", raw_filename, "", "", 0)
       ELSE Line("raise", raw_filename, orw.exc, "", 0)
  ELSE
  LET dicom_time == get_dicom_timestamp(Files(dicom_filename)) IN
  IF dicom_time.tag = "raise" THEN Line("raise", dicom_filename, dicom_time.exc, "", 0)
  ELSE
  LET raw_time == get_raw_timestamp(Files(raw_filename)) IN
  IF raw_time.tag = "raise" THEN Line("raise", raw_filename, raw_time.exc, "", 0)
  ELSE
  LET d == time_diff(dicom_time, raw_time) IN
  IF d.tag = "raise" THEN Line("raise", dicom_filename, d.exc, "", 0)
  ELSE
  LET c == magenta_comment(Files(dicom_filename), styl) IN
  IF c # "" THEN Line("raise", dicom_filename, c, "", 0)
  ELSE Line("report", dicom_filename, "", comparison_color(d.secs), d.secs)

\* ------------------------------------------------------------------- Init

\* parse_args: the attributes of the namespace it returns.
ArgsAttributes == {"targets", "raw", "verbose"}

getattr_args(name) == IF name \in ArgsAttributes THEN "" ELSE "AttributeError"

Idle ==
  /\ pc = "start" /\ exc = "" /\ idx = 0
  /\ ref_time = ReturnedNone
  /\ matches = <<>> /\ skipped = <<>> /\ dicom_file = ""
  /\ matchset = EmptyDict /\ branch = "" /\ out = <<>>

InitDicomToRaw ==
  /\ op = "dicom_to_raw"
  /\ ref \in DicomNames
  /\ listing \in Listings(RawDirNames, MaxFiles)
  /\ targets = <<>> /\ raw = FALSE /\ verbose = FALSE /\ styling = FALSE

InitRawToDicom ==
  /\ op = "raw_to_dicom"
  /\ ref \in TiffNames
  /\ listing \in Listings(DicomDirNames, MaxFiles)
  /\ targets = <<>> /\ raw = FALSE /\ verbose = FALSE /\ styling = FALSE

InitMatchDirectories ==
  /\ op = "match_directories"
  /\ ref = ""
  /\ listing \in Listings(DicomDirNames, MaxFiles)
  /\ verbose \in BOOLEAN
  /\ targets = <<>> /\ raw = FALSE /\ styling = FALSE

InitPrintComparison ==
  /\ op = "print_comparison"
  /\ ref = ""
  /\ listing = <<>>
  /\ targets \in [1..2 -> AllNames]
  /\ styling \in BOOLEAN
  /\ raw = FALSE /\ verbose = FALSE

InitRunFromCli ==
  /\ op = "run_from_cli"
  /\ ref = ""
  /\ targets \in UNION {[1..k -> CliPaths] : k \in 0..MaxTargets}
  /\ listing \in IF Len(targets) = 2 /\ isdir(targets[2])
                 THEN Listings(CliDirNames, MaxCliFiles)
                 ELSE {<<>>}
  /\ raw \in BOOLEAN /\ verbose \in BOOLEAN /\ styling \in BOOLEAN

Init ==
  /\ Idle
  /\ \/ InitDicomToRaw
     \/ InitRawToDicom
     \/ InitMatchDirectories
     \/ InitPrintComparison
     \/ InitRunFromCli

\* ------------------------------------------ _find_matching_files_dicom_to_raw

Raised(e) ==
  /\ pc' = "raised"
  /\ exc' = e

\* dicom_time = _get_dicom_timestamp(dicom_file); matches = []
DicomToRawStart ==
  /\ op = "dicom_to_raw" /\ pc = "start"
  /\ LET t == get_dicom_timestamp(Files(ref)) IN
     /\ ref_time' = t
     /\ IF t.tag = "raise" THEN Raised(t.exc) ELSE pc' = "loop" /\ UNCHANGED exc
  /\ UNCHANGED <<op, ref, listing, idx, matches, skipped, dicom_file, matchset,
                 targets, raw, verbose, styling, branch, out>>

\* One pass of the for loop over os.listdir(raw_dir).
DicomToRawIter ==
  /\ op = "dicom_to_raw" /\ pc = "loop" /\ idx < Len(listing)
  /\ LET raw_filename == listing[idx + 1]
         r == dicom_to_raw_try(ref_time, raw_filename)
     IN CASE r.tag = "match" ->
               /\ matches' = append_match(matches, raw_filename)
               /\ idx' = idx + 1
               /\ UNCHANGED <<pc, exc, skipped>>
          [] r.tag = "nomatch" ->
               /\ idx' = idx + 1
               /\ UNCHANGED <<pc, exc, matches, skipped>>
          [] r.tag = "raise" /\ Catches({"ValueError", "IsADirectoryError"}, r.exc) ->
               /\ skipped' = Append(skipped, [name |-> raw_filename, exc |-> r.exc])
               /\ idx' = idx + 1
               /\ UNCHANGED <<pc, exc, matches>>
          [] OTHER ->
               /\ Raised(r.exc)
               /\ UNCHANGED <<idx, matches, skipped>>
  /\ UNCHANGED <<op, ref, ref_time, listing, dicom_file, matchset,
                 targets, raw, verbose, styling, branch, out>>

\* return matches
DicomToRawReturn ==
  /\ op = "dicom_to_raw" /\ pc = "loop" /\ idx = Len(listing)
  /\ pc' = "returned"
  /\ UNCHANGED <<op, exc, ref, ref_time, listing, idx, matches, skipped, dicom_file,
                 matchset, targets, raw, verbose, styling, branch, out>>

\* ------------------------------------------ _find_matching_files_raw_to_dicom

\* raw_time = _get_raw_timestamp(raw_file); matches = []
RawToDicomStart ==
  /\ op = "raw_to_dicom" /\ pc = "start"
  /\ LET t == get_raw_timestamp(Files(ref)) IN
     /\ ref_time' = t
     /\ IF t.tag = "raise" THEN Raised(t.exc) ELSE pc' = "loop" /\ UNCHANGED exc
  /\ UNCHANGED <<op, ref, listing, idx, matches, skipped, dicom_file, matchset,
                 targets, raw, verbose, styling, branch, out>>

\* One pass of the for loop over os.listdir(dicom_dir).  The handler formats
\* dicom_file, the dataset of the last file that opened, not dicom_filename;
\* while nothing has opened the local is unbound.
RawToDicomIter ==
  /\ op = "raw_to_dicom" /\ pc = "loop" /\ idx < Len(listing)
  /\ LET dicom_filename == listing[idx + 1]
         r == raw_to_dicom_try(ref_time, dicom_filename)
     IN /\ dicom_file' = IF r.opened THEN dicom_filename ELSE dicom_file
        /\ CASE r.tag = "match" ->
                  /\ matches' = append_match(matches, dicom_filename)
                  /\ idx' = idx + 1
                  /\ UNCHANGED <<pc, exc, skipped>>
             [] r.tag = "nomatch" ->
                  /\ idx' = idx + 1
                  /\ UNCHANGED <<pc, exc, matches, skipped>>
             [] r.tag = "raise"
                /\ Catches({"InvalidDicomError", "IsADirectoryError"}, r.exc) ->
                  IF dicom_file' = ""
                  THEN /\ Raised("UnboundLocalError")
                       /\ UNCHANGED <<idx, matches, skipped>>
                  ELSE /\ skipped' = Append(skipped, [name |-> dicom_file', exc |-> r.exc])
                       /\ idx' = idx + 1
                       /\ UNCHANGED <<pc, exc, matches>>
             [] OTHER ->
                  /\ Raised(r.exc)
                  /\ UNCHANGED <<idx, matches, skipped>>
  /\ UNCHANGED <<op, ref, ref_time, listing, matchset,
                 targets, raw, verbose, styling, branch, out>>

\* return matches
RawToDicomReturn ==
  /\ op = "raw_to_dicom" /\ pc = "loop" /\ idx = Len(listing)
  /\ pc' = "returned"
  /\ UNCHANGED <<op, exc, ref, ref_time, listing, idx, matches, skipped, dicom_file,
                 matchset, targets, raw, verbose, styling, branch, out>>

\* -------------------------------------------------------- match_directories

\* matches = {}; dicom_filenames = os.listdir(dicom_dir)
MatchDirectoriesStart ==
  /\ op = "match_directories" /\ pc = "start"
  /\ pc' = "loop"
  /\ UNCHANGED <<op, exc, ref, ref_time, listing, idx, matches, skipped, dicom_file,
                 matchset, targets, raw, verbose, styling, branch, out>>

\* One pass of the for loop over dicom_filenames.
MatchDirectoriesIter ==
  /\ op = "match_directories" /\ pc = "loop" /\ idx < Len(listing)
  /\ LET dicom_filename == listing[idx + 1]
         o == open_dicom(dicom_filename)
         r == IF o.tag = "raise"
              THEN [tag |-> "raise", list |-> <<>>, exc |-> o.exc]
              ELSE find_matching_files(dicom_filename, "raw_dir", verbose)
     IN /\ out' = IF verbose
                  THEN Append(out, Line("verbose", dicom_filename, "", "", 0))
                  ELSE out
        /\ CASE r.tag = "ok" ->
                  /\ matchset' = [n \in DOMAIN matchset \cup {dicom_filename} |->
                                    IF n = dicom_filename THEN r.list ELSE matchset[n]]
                  /\ idx' = idx + 1
                  /\ UNCHANGED <<pc, exc, skipped>>
             [] r.tag = "raise"
                /\ Catches({"InvalidDicomError", "IsADirectoryError"}, r.exc) ->
                  /\ skipped' = Append(skipped, [name |-> dicom_filename, exc |-> r.exc])
                  /\ idx' = idx + 1
                  /\ UNCHANGED <<pc, exc, matchset>>
             [] OTHER ->
                  /\ Raised(r.exc)
                  /\ UNCHANGED <<idx, matchset, skipped>>
  /\ UNCHANGED <<op, ref, ref_time, listing, matches, dicom_file,
                 targets, raw, verbose, styling, branch>>

\* return matches
MatchDirectoriesReturn ==
  /\ op = "match_directories" /\ pc = "loop" /\ idx = Len(listing)
  /\ pc' = "returned"
  /\ UNCHANGED <<op, exc, ref, ref_time, listing, idx, matches, skipped, dicom_file,
                 matchset, targets, raw, verbose, styling, branch, out>>

\* --------------------------------------------------------- print_comparison

PrintComparison ==
  /\ op = "print_comparison" /\ pc = "start"
  /\ LET r == print_comparison(targets[1], targets[2], styling) IN
     IF r.outcome = "raise"
     THEN Raised(r.exc) /\ UNCHANGED out
     ELSE pc' = "returned" /\ out' = Append(out, r) /\ UNCHANGED exc
  /\ UNCHANGED <<op, ref, ref_time, listing, idx, matches, skipped, dicom_file,
                 matchset, targets, raw, verbose, styling, branch>>

\* -------------------------------------------------------------- run_from_cli

\* The branch run_from_cli takes on args.targets, and the attribute of args
\* the branch reads before it calls anything ("" when it reads none).
cli_branch(t) ==
  IF Len(t) = 1 THEN [name |-> "metadata", attr |-> "r"]
  ELSE IF Len(t) = 2
       THEN IF isdir(t[1]) /\ isdir(t[2]) THEN [name |-> "directories", attr |-> "v"]
            ELSE IF isdir(t[2]) THEN [name |-> "one_to_many", attr |-> ""]
                 ELSE [name |-> "pairwise", attr |-> ""]
       ELSE [name |-> "nothing", attr |-> ""]

RunFromCliDispatch ==
  /\ op = "run_from_cli" /\ pc = "start"
  /\ LET b == cli_branch(targets) IN
     /\ branch' = b.name
     /\ IF b.attr # "" /\ getattr_args(b.attr) # ""
        THEN Raised(getattr_args(b.attr)) /\ UNCHANGED out
        ELSE CASE b.name = "one_to_many" ->
                    pc' = "loop" /\ UNCHANGED <<exc, out>>
               [] b.name = "pairwise" ->
                    LET r == print_comparison(targets[1], targets[2], styling) IN
                    IF r.outcome = "raise"
                    THEN Raised(r.exc) /\ UNCHANGED out
                    ELSE pc' = "returned" /\ out' = Append(out, r) /\ UNCHANGED exc
               [] OTHER ->
                    pc' = "returned" /\ UNCHANGED <<exc, out>>
  /\ UNCHANGED <<op, ref, ref_time, listing, idx, matches, skipped, dicom_file,
                 matchset, targets, raw, verbose, styling>>

\* for raw_file in os.listdir(args.targets[1]): print_comparison(...)
RunFromCliIter ==
  /\ op = "run_from_cli" /\ pc = "loop" /\ idx < Len(listing)
  /\ LET r == print_comparison(targets[1], listing[idx + 1], styling) IN
     IF r.outcome = "raise"
     THEN Raised(r.exc) /\ UNCHANGED <<out, idx>>
     ELSE out' = Append(out, r) /\ idx' = idx + 1 /\ UNCHANGED <<pc, exc>>
  /\ UNCHANGED <<op, ref, ref_time, listing, matches, skipped, dicom_file,
                 matchset, targets, raw, verbose, styling, branch>>

RunFromCliReturn ==
  /\ op = "run_from_cli" /\ pc = "loop" /\ idx = Len(listing)
  /\ pc' = "returned"
  /\ UNCHANGED <<op, exc, ref, ref_time, listing, idx, matches, skipped, dicom_file,
                 matchset, targets, raw, verbose, styling, branch, out>>

\* -------------------------------------------------------------------- Spec

Next ==
  \/ DicomToRawStart
  \/ DicomToRawIter
  \/ DicomToRawReturn
  \/ RawToDicomStart
  \/ RawToDicomIter
  \/ RawToDicomReturn
  \/ MatchDirectoriesStart
  \/ MatchDirectoriesIter
  \/ MatchDirectoriesReturn
  \/ PrintComparison
  \/ RunFromCliDispatch
  \/ RunFromCliIter
  \/ RunFromCliReturn

Spec == Init /\ [][Next]_vars

\* ------------------------------------------------------------------ claims

Scan == op \in {"dicom_to_raw", "raw_to_dicom"}

Ended == pc \in {"returned", "raised"}

\* The timestamp of a candidate of the running scan, read the way the scan
\* reads it: as a RAW file in a DICOM-to-RAW scan, as a DICOM file otherwise.
CandidateTime(name) ==
  IF op = "dicom_to_raw"
  THEN (IF open_raw(name).tag = "ok" THEN get_raw_timestamp(Files(name))
        ELSE open_raw(name))
  ELSE (IF open_dicom(name).tag = "ok" THEN get_dicom_timestamp(Files(name))
        ELSE open_dicom(name))

\* |a - b| in seconds, on two datetimes.
AbsSeconds(a, b) ==
  LET d == (a.ord - b.ord) * 86400 + (a.sec - b.sec) IN IF d < 0 THEN 0 - d ELSE d

\* Whether a is b with some elements left out.
RECURSIVE IsSubsequence(_, _)
IsSubsequence(a, b) ==
  IF Len(a) = 0 THEN TRUE
  ELSE IF Len(b) = 0 THEN FALSE
       ELSE IF a[1] = b[1] THEN IsSubsequence(Tail(a), Tail(b))
            ELSE IsSubsequence(a, Tail(b))

\* C1: in a pool scan whose reference has a timestamp, no candidate makes
\* the scan end with a propagated exception: every failing candidate is
\* skipped and the scan goes on to return its list.
C1_ScanNeverAborts ==
  ~(Scan /\ ref_time.tag = "ok" /\ pc = "raised")

\* C2: when match_directories has ended, the references it went through that
\* have a valid timestamp are keys of the MatchSet, and no other reference is.
C2_KeysAreTheValidReferences ==
  (op = "match_directories" /\ Ended) =>
    \A i \in 1..Len(listing) :
      (i <= idx \/ (pc = "raised" /\ i = idx + 1)) =>
        (listing[i] \in DOMAIN matchset
           <=> (/\ open_dicom(listing[i]).tag = "ok"
                /\ get_dicom_timestamp(Files(listing[i])).tag = "ok"))

\* C3: one exclusive bound everywhere: a printed comparison shows the pair
\* as compatible (green) exactly when the pool scans would accept it,
\* that is when the difference is below 2 seconds.
C3_OneExclusiveBound ==
  \A i \in 1..Len(out) :
    out[i].outcome = "report" =>
      ((out[i].color = "green") <=> (out[i].secs < 2))

\* C4: the list a DICOM-to-RAW scan returns holds exactly the candidates of
\* the listing whose timestamp could be read and lies less than 2 seconds
\* from the reference's, all of them, in listing order.
C4_ReturnsExactlyTheCompatible ==
  (op = "dicom_to_raw" /\ pc = "returned") =>
    LET Accepted(n) ==
          /\ ref_time.tag = "ok"
          /\ CandidateTime(n).tag = "ok"
          /\ AbsSeconds(ref_time.ts, CandidateTime(n).ts) < 2
    IN matches = SelectSeq(listing, Accepted)

\* C4 witness: a scan returned two matches (a tie) and skipped a candidate.
C4_Witness ==
  /\ op = "dicom_to_raw" /\ pc = "returned"
  /\ Len(matches) = 2
  /\ Len(skipped) = 1

\* C5: at every step of a pool scan the accepted list is a subsequence of
\* the part of the listing already visited.
C5_MatchesSubsequenceOfVisited ==
  Scan => IsSubsequence(matches, SubSeq(listing, 1, idx))

\* C5 witness: a scan accepted the first and the third candidate and not the
\* second.
C5_Witness ==
  /\ Scan
  /\ idx = 3
  /\ matches = <<listing[1], listing[3]>>

\* C6: the verdict a scan reached on a visited candidate is the verdict on
\* the same two timestamps taken in the other order.
C6_VerdictSymmetric ==
  (Scan /\ ref_time.tag = "ok") =>
    \A i \in 1..idx :
      CandidateTime(listing[i]).tag = "ok" =>
        LET c == CandidateTime(listing[i]) IN
          /\ (\E k \in 1..Len(matches) : matches[k] = listing[i])
               <=> within_tolerance(time_diff(c, ref_time).secs)
          /\ within_tolerance(time_diff(ref_time, c).secs)
               <=> within_tolerance(time_diff(c, ref_time).secs)

\* C6 witness: a scan has visited a candidate stamped before the reference
\* and one stamped after it, accepted one of the two and rejected the other.
C6_Witness ==
  /\ Scan /\ ref_time.tag = "ok"
  /\ \E i, j \in 1..idx :
       /\ CandidateTime(listing[i]).tag = "ok"
       /\ CandidateTime(listing[j]).tag = "ok"
       /\ DtGreater(ref_time.ts, CandidateTime(listing[i]).ts)
       /\ DtGreater(CandidateTime(listing[j]).ts, ref_time.ts)
       /\ Len(matches) = 1
       /\ matches[1] \in {listing[i], listing[j]}

\* C7: read from a DICOM file that lacks the acquisition date or the
\* acquisition time, the timestamp is None and nothing is raised; a
\* timestamp comes back only when both are there.
C7_AbsentWhenEitherMissing ==
  (op = "dicom_to_raw" /\ pc # "start") =>
    /\ (~Files(ref).hasDate \/ ~Files(ref).hasTime) => ref_time.tag = "none"
    /\ ref_time.tag = "ok" => (Files(ref).hasDate /\ Files(ref).hasTime)

\* C8: a comparison of two files in which an open or a timestamp fails on
\* either side returns after printing which side failed, with no verdict;
\* it does not end with an exception.
C8_ComparisonFailsControlled ==
  (op = "print_comparison" /\ pc # "start"
     /\ ~isdir(targets[1]) /\ ~isdir(targets[2])) =>
    LET d == targets[1]
        r == targets[2]
        failed ==
          \/ open_dicom(d).tag # "ok"
          \/ get_dicom_timestamp(Files(d)).tag # "ok"
          \/ open_raw(r).tag # "ok"
          \/ get_raw_timestamp(Files(r)).tag # "ok"
    IN failed =>
         /\ pc = "returned"
         /\ Len(out) = 1
         /\ out[1].outcome \in {"warn_dicom", "warn_raw"}

\* C9: with two paths, two directories give the MatchSet, exactly one
\* directory in either position gives the one-to-many scan, two files give
\* the single comparison.
C9_TwoPathDispatch ==
  (op = "run_from_cli" /\ pc # "start" /\ Len(targets) = 2) =>
    LET dirs == Cardinality({i \in 1..2 : isdir(targets[i])}) IN
      /\ dirs = 2 => branch = "directories"
      /\ dirs = 1 => branch = "one_to_many"
      /\ dirs = 0 => branch = "pairwise"

\* C10: with no path, or with more than two, the invocation is reported
\* (usage or usage error): it never ends having printed nothing.
C10_NoSilentExit ==
  (op = "run_from_cli" /\ Ended /\ Len(targets) \notin {1, 2}) =>
    \E i \in 1..Len(out) : out[i].outcome \in {"usage", "usage_error"}

====
